---- MODULE Spec2Model ----
(***************************************************************************)
(* deepOmit of src/remeda/index.ts (and its sibling in src/deep-omit.ts),  *)
(* modelled over an explicit heap of JavaScript containers.                *)
(*                                                                         *)
(* A JavaScript value is a record [t, v]: a primitive carries its own      *)
(* payload, an array or object is a reference [t |-> "ref", v |-> addr]    *)
(* into `heap`.  Strings are sequences of one-character strings, so that   *)
(* iterating a string (new Set("id")) and taking its length mean what      *)
(* they mean in JavaScript.                                                *)
(***************************************************************************)
EXTENDS Integers, Sequences, FiniteSets, TLC

\* ---------------------------------------------------------------- bounds
MaxHeap == 2      \* containers the caller builds before the call
MaxLen  == 2      \* elements of an array / entries of an object
MaxKeys == 2      \* length of the key list

\* ------------------------------------------------------------ JS values
Str(cs)   == [t |-> "str",  v |-> cs]
Num(n)    == [t |-> "num",  v |-> n]
Bool(b)   == [t |-> "bool", v |-> b]
Null      == [t |-> "null", v |-> 0]
Undefined == [t |-> "undef", v |-> 0]
Ref(a)    == [t |-> "ref",  v |-> a]
None      == [t |-> "none", v |-> 0]     \* a variable that holds nothing yet

KeyA  == <<"a">>
KeyB  == <<"b">>
KeyId == <<"i", "d">>
KeyOrder == <<KeyA, KeyB, KeyId>>
Keys  == {KeyOrder[i] : i \in 1..Len(KeyOrder)}   \* what a key list may name
ObjectKeys == {KeyA, KeyB}                         \* what an object may have

Scalars == {Str(<<"x">>), Num(42), Bool(TRUE), Null, Undefined}
Leaves  == {Num(1)}

\* remeda ^1.16.0 is a peer dependency: omit() is either the Set-based
\* implementation or the later one that branches on propNames.length.
Builds == {"set", "length"}

\* Array.isArray(value)
IsArray(h, value) == value.t = "ref" /\ h[value.v].t = "arr"
\* typeof value === "object" && value !== null  (after the array test)
IsObject(h, value) == value.t = "ref" /\ h[value.v].t = "obj"

\* a freshly allocated container: the heap with it, and the reference to it
Alloc(h, tag, body) ==
  [h |-> Append(h, [t |-> tag, v |-> body]), r |-> Ref(Len(h) + 1), ok |-> TRUE]

Throw(h) == [h |-> h, r |-> None, ok |-> FALSE]

RECURSIVE R_deepOmit(_, _, _, _)
RECURSIVE R_map(_, _, _, _, _, _)
RECURSIVE R_reduce(_, _, _, _, _, _)
RECURSIVE P_deepOmit(_, _, _)
RECURSIVE P_for(_, _, _, _, _)
RECURSIVE P_entries(_, _, _, _, _)
RECURSIVE Tree(_, _)
RECURSIVE Reach(_, _)
RECURSIVE SeqToSet(_)
SeqToSet(s) == IF s = <<>> THEN {} ELSE {Head(s)} \cup SeqToSet(Tail(s))

\* the values a container holds directly
Children(c) ==
  IF c.t = "arr" THEN {c.v[i] : i \in 1..Len(c.v)}
                 ELSE {c.v[i].v : i \in 1..Len(c.v)}

\* the containers reachable from a value by reference
Reach(h, val) ==
  IF val.t # "ref" THEN {}
  ELSE {val.v} \cup UNION {Reach(h, child) : child \in Children(h[val.v])}

\* a value without its addresses, for deep equality: an array is the
\* sequence of its elements, an object the function from its keys
Tree(h, val) ==
  IF val.t # "ref" THEN val
  ELSE LET c == h[val.v]
       IN  IF c.t = "arr"
           THEN [t |-> "arr", v |-> [i \in 1..Len(c.v) |-> Tree(h, c.v[i])]]
           ELSE [t |-> "obj",
                 v |-> [k \in {c.v[i].k : i \in 1..Len(c.v)} |->
                          Tree(h, (CHOOSE e \in SeqToSet(c.v) : e.k = k).v)]]

\* --------------------------------------------------------- remeda's omit
\* what `new Set(propNames)` holds
SetOf(h, propNames) ==
  IF IsArray(h, propNames) THEN SeqToSet(h[propNames.v].v)
  ELSE IF propNames.t = "str"
       THEN {Str(<<propNames.v[i]>>) : i \in 1..Len(propNames.v)}
       ELSE {}

\* propNames can be handed to `new Set(...)`
Iterable(h, propNames) ==
  \/ IsArray(h, propNames)
  \/ propNames.t \in {"str", "null", "undef"}

Without(entries, names) == SelectSeq(entries, LAMBDA e : Str(e.k) \notin names)

omitSet(h, data, propNames) ==
  IF ~Iterable(h, propNames) THEN Throw(h)
  ELSE Alloc(h, "obj", Without(h[data.v].v, SetOf(h, propNames)))

omitLength(h, data, propNames) ==
  IF IsArray(h, propNames)
  THEN Alloc(h, "obj", Without(h[data.v].v, SetOf(h, propNames)))
  ELSE IF propNames.t = "str"
       THEN IF Len(propNames.v) = 0
            THEN Alloc(h, "obj", h[data.v].v)
            ELSE IF Len(propNames.v) = 1
                 THEN Alloc(h, "obj", Without(h[data.v].v, {Str(<<propNames.v[1]>>)}))
                 ELSE Throw(h)           \* propNames.some is not a function
       ELSE Throw(h)

\* variant: the keys are deleted from data itself
omit_inPlace(lib, h, data, propNames) ==
  LET o == IF lib = "set" THEN omitSet(h, data, propNames)
                          ELSE omitLength(h, data, propNames)
  IN  IF ~o.ok THEN o
      ELSE [h |-> [h EXCEPT ![data.v].v = o.h[o.r.v].v], r |-> data, ok |-> TRUE]

omit(lib, h, data, propNames) ==
  IF lib = "set" THEN omitSet(h, data, propNames)
                 ELSE omitLength(h, data, propNames)

\* ------------------------------------------- _deepOmit, src/remeda/index.ts
\* { ...acc, [key]: val }: the entries of acc with key set to val
SetEntry(entries, key, val) ==
  IF \E i \in 1..Len(entries) : entries[i].k = key
  THEN [i \in 1..Len(entries) |->
          IF entries[i].k = key THEN [k |-> key, v |-> val] ELSE entries[i]]
  ELSE Append(entries, [k |-> key, v |-> val])

\* value.map((elem) => _deepOmit(target, elem)), elements i.. onwards;
\* out is the address of the array map() is filling
R_map(lib, h, value, i, target, out) ==
  IF i > Len(h[value.v].v) THEN [h |-> h, r |-> Ref(out), ok |-> TRUE]
  ELSE LET c == R_deepOmit(lib, h, target, h[value.v].v[i])
       IN  IF ~c.ok THEN c
           ELSE R_map(lib, [c.h EXCEPT ![out].v = Append(@, c.r)],
                      value, i + 1, target, out)

\* entries.reduce((acc, [key, value]) =>
\*     ({ ...acc, [key]: _deepOmit(value, target) }), acc), entries i.. onwards
R_reduce(lib, h, entries, i, acc, target) ==
  IF i > Len(entries) THEN [h |-> h, r |-> acc, ok |-> TRUE]
  ELSE LET n == Alloc(h, "obj", h[acc.v].v)
           c == R_deepOmit(lib, n.h, entries[i].v, target)
       IN  IF ~c.ok THEN c
           ELSE R_reduce(lib,
                         [c.h EXCEPT ![n.r.v].v = SetEntry(@, entries[i].k, c.r)],
                         entries, i + 1, n.r, target)

\* the Array.isArray branch: value.map(...)
R_array(lib, h, value, target) ==
  LET a == Alloc(h, "arr", <<>>)
  IN  R_map(lib, a.h, value, 1, target, a.r.v)

\* the object branch: Object.entries(omit(value, target)).reduce(..., {})
R_object(lib, h, value, target) ==
  LET o == omit(lib, h, value, target)
  IN  IF ~o.ok THEN o
      ELSE LET z == Alloc(o.h, "obj", <<>>)
           IN  R_reduce(lib, z.h, o.h[o.r.v].v, 1, z.r, target)

\* variant: an empty array is handed back as it is
R_deepOmit_reuseEmpty(lib, h, value, target) ==
  IF IsArray(h, value)
  THEN IF h[value.v].v = <<>> THEN [h |-> h, r |-> value, ok |-> TRUE]
       ELSE R_array(lib, h, value, target)
  ELSE IF IsObject(h, value) THEN R_object(lib, h, value, target)
  ELSE [h |-> h, r |-> value, ok |-> TRUE]

\* variant: the object test without `value !== null`, so that null reaches
\* Object.entries(omit(null, target))
R_deepOmit_nullIsObject(lib, h, value, target) ==
  IF IsArray(h, value) THEN R_array(lib, h, value, target)
  ELSE IF IsObject(h, value) THEN R_object(lib, h, value, target)
  ELSE IF value.t = "null" THEN Throw(h)
  ELSE [h |-> h, r |-> value, ok |-> TRUE]

R_deepOmit(lib, h, value, target) ==
  IF IsArray(h, value) THEN R_array(lib, h, value, target)
  ELSE IF IsObject(h, value) THEN R_object(lib, h, value, target)
  ELSE [h |-> h, r |-> value, ok |-> TRUE]

\* purry(_deepOmit, arguments): _deepOmit.length is 2
FnLength == 2

deepOmit(lib, h, args) ==
  IF FnLength - Len(args) = 0 THEN R_deepOmit(lib, h, args[1], args[2])
  ELSE IF FnLength - Len(args) = 1
       THEN [h |-> h, r |-> [t |-> "fn", v |-> args[1]], ok |-> TRUE]
       ELSE Throw(h)                     \* Wrong number of arguments

\* variant: the bound argument goes first
callFn_boundFirst(lib, h, f, data) == R_deepOmit(lib, h, f.v, data)

\* the unary function purry returns: (data) => _deepOmit(data, ...args)
callFn(lib, h, f, data) == R_deepOmit(lib, h, data, f.v)

\* ---------------------------------------------- _deepOmit, src/deep-omit.ts
\* for (index...) collect.push(_deepOmit(target, value[index]))
P_for(h, value, index, target, collect) ==
  IF index > Len(h[value.v].v) THEN [h |-> h, r |-> Ref(collect), ok |-> TRUE]
  ELSE LET c == P_deepOmit(h, target, h[value.v].v[index])
       IN  IF ~c.ok THEN c
           ELSE P_for([c.h EXCEPT ![collect].v = Append(@, c.r)],
                      value, index + 1, target, collect)

\* for (let [key, entryValue] of Object.entries(value))
\*   collect[key] = _deepOmit(entryValue, target)
P_entries(h, entries, i, target, collect) ==
  IF i > Len(entries) THEN [h |-> h, r |-> Ref(collect), ok |-> TRUE]
  ELSE LET c == P_deepOmit(h, entries[i].v, target)
       IN  IF ~c.ok THEN c
           ELSE P_entries([c.h EXCEPT ![collect].v = SetEntry(@, entries[i].k, c.r)],
                          entries, i + 1, target, collect)

P_deepOmit(h, value, target) ==
  IF IsArray(h, value)
  THEN LET a == Alloc(h, "arr", <<>>)
       IN  P_for(a.h, value, 1, target, a.r.v)
  ELSE IF IsObject(h, value)
  THEN LET a == Alloc(h, "obj", <<>>)
       IN  P_entries(a.h, h[value.v].v, 1, target, a.r.v)
  ELSE [h |-> h, r |-> value, ok |-> TRUE]

\* purry(_deepOmit, arguments) of src/deep-omit.ts, called with two arguments
P_call(h, args) ==
  IF FnLength - Len(args) = 0 THEN P_deepOmit(h, args[1], args[2])
  ELSE IF FnLength - Len(args) = 1
       THEN [h |-> h, r |-> [t |-> "fn", v |-> args[1]], ok |-> TRUE]
       ELSE Throw(h)

\* ----------------------------------------------------------------- state
VARIABLES
  lib,      \* which omit() the build resolved
  heap,     \* the containers allocated so far, by address
  pc,       \* where the caller is
  value,    \* the value handed to deepOmit
  keys,     \* the key list handed to deepOmit
  result,   \* what deepOmit(value, keys) returned
  threw,    \* deepOmit(value, keys) raised an error
  fn,       \* what deepOmit(keys) returned
  curried,  \* what fn(value) returned
  curriedThrew,
  again,    \* what deepOmit(result, keys) returned
  againThrew,
  plain,    \* what deepOmit(value, keys) of src/deep-omit.ts returned
  plainThrew

calls == <<result, threw, fn, curried, curriedThrew, again, againThrew, plain, plainThrew>>
vars == <<lib, heap, pc, value, keys, calls>>

\* The other utilities of the repository have their own state and their own
\* specification each; a specification leaves the state of the others alone.

\* ---- usePendingEvent / useAsyncCallback, src/react/index.ts
VARIABLES
  pe_pending,   \* useState(false): pending
  pe_success,   \* useState(false): success
  pe_error,     \* useState(null): error
  pe_ref,       \* ref.current: the callback memoized will call
  pe_wrapped,   \* the callbacks the returned wrapper was applied to
  pe_calls      \* the invocations of memoized, in the order they started

pendingVars == <<pe_pending, pe_success, pe_error, pe_ref, pe_wrapped, pe_calls>>

\* the hook before its component has used it: useState and useRef initial values
PendingMounted ==
  /\ pe_pending = FALSE
  /\ pe_success = FALSE
  /\ pe_error = Null
  /\ pe_ref = "noop"
  /\ pe_wrapped = {}
  /\ pe_calls = <<>>

\* ---- useEvent, src/react/index.ts
NoCallback == "none"                             \* no callback there
NoRef == [stable |-> 0, callback |-> NoCallback]  \* useRef not called yet

VARIABLES
  ev_hasDocument,  \* typeof document !== "undefined" when the module loaded
  ev_ref,          \* ref.current: NoRef before the first render, then
                   \* [stable |-> identity, callback |-> callback]
  ev_returned,     \* the function objects the renders returned
  ev_wip,          \* the callback of a render that has not committed yet
  ev_committed,    \* the callback of the most recently committed render
  ev_passive,      \* the callback a scheduled passive effect will store
  ev_renders,      \* renders so far
  ev_calls         \* the invocations of the returned function

eventVars == <<ev_hasDocument, ev_ref, ev_returned, ev_wip, ev_committed,
               ev_passive, ev_renders, ev_calls>>

\* the component that uses the hook has not rendered yet
EventUnmounted ==
  /\ ev_ref = NoRef
  /\ ev_returned = {}
  /\ ev_wip = NoCallback
  /\ ev_committed = NoCallback
  /\ ev_passive = NoCallback
  /\ ev_renders = 0
  /\ ev_calls = <<>>

\* the hook is not in use, in a browser
EventIdle == EventUnmounted /\ ev_hasDocument = TRUE

\* ---- useLazyRef, src/react/index.ts
VARIABLES
  lz_current,   \* ref.current
  lz_renders,   \* renders so far
  lz_calls      \* what fn returned, call by call

lazyVars == <<lz_current, lz_renders, lz_calls>>

\* the component has not rendered yet: useRef<T>() holds undefined
LazyUnmounted ==
  /\ lz_current = Undefined
  /\ lz_renders = 0
  /\ lz_calls = <<>>

\* ---- usePrevious and useHasChanged, react/index.ts
NoState == <<>>     \* useState not called yet

VARIABLES
  hc_state,     \* the useState pair [current, previus]
  hc_values,    \* the value passed, render by render
  hc_out        \* what useHasChanged returned, render by render

changedVars == <<hc_state, hc_values, hc_out>>

ChangedUnmounted ==
  /\ hc_state = NoState
  /\ hc_values = <<>>
  /\ hc_out = <<>>

\* ---- useDeepMemo, src/react/index.ts
NoMemo == [key |-> [id |-> 0, tree |-> Undefined], value |-> 0]  \* useRef()

VARIABLES
  dm_ref,       \* ref.current: NoMemo, then [key |-> key, value |-> value]
  dm_memoCalls, \* calls of memoFn so far; the n-th call returns n
  dm_keys,      \* the key passed, render by render
  dm_called,    \* whether the render called memoFn, render by render
  dm_out        \* what useDeepMemo returned, render by render

memoVars == <<dm_ref, dm_memoCalls, dm_keys, dm_called, dm_out>>

MemoUnmounted ==
  /\ dm_ref = NoMemo
  /\ dm_memoCalls = 0
  /\ dm_keys = <<>>
  /\ dm_called = <<>>
  /\ dm_out = <<>>

\* ---- the console logger, src/log.ts
Nullish == "nullish"            \* null or undefined where a level is expected
NoStorage == "no localStorage"  \* reading or writing localStorage throws
NoRead == [logger |-> 0, prop |-> "", result |-> [kind |-> "none", name |-> "", bound |-> FALSE, proxied |-> FALSE]]

VARIABLES
  log_storage,       \* localStorage "loglevel": a string, Nullish, NoStorage
  log_loaded,        \* the module has been evaluated
  log_defaultLevel,  \* the module's defaultLevel
  log_loggers,       \* the proxies created, each with its handler's closure:
                     \* [level, bind, callback]
  log_read           \* the last property read from a proxy, and what came back

logVars == <<log_storage, log_loaded, log_defaultLevel, log_loggers, log_read>>

\* the module is not loaded, in a browser with nothing stored
LogUnloaded ==
  /\ log_storage = Nullish
  /\ log_loaded = FALSE
  /\ log_defaultLevel = "trace"
  /\ log_loggers = <<>>
  /\ log_read = NoRead

\* ---- debounce, src/index.ts
VARIABLES
  db_timeout,    \* the timeout debounce was given, in ticks of the clock
  db_now,        \* the clock
  db_timeoutId,  \* timeoutId of the closure; 0 while it is undefined
  db_nextId,     \* the id window.setTimeout hands out next
  db_timers,     \* the timers set and not yet run or cleared
  db_calls,      \* the calls of the debounced function: [at, args]
  db_funcs       \* the invocations of func: [at, args, after], after = the
                 \* number of calls of the debounced function made before it

debounceVars == <<db_timeout, db_now, db_timeoutId, db_nextId, db_timers,
                  db_calls, db_funcs>>

\* debounce(func, 1) has just returned: no call yet, timeoutId undefined
DebounceUnused ==
  /\ db_timeout = 1
  /\ db_now = 0
  /\ db_timeoutId = 0
  /\ db_nextId = 1
  /\ db_timers = {}
  /\ db_calls = <<>>
  /\ db_funcs = <<>>

\* deepOmit is not running
DeepOmitIdle ==
  /\ lib = "set"
  /\ heap = <<>>
  /\ pc = "idle"
  /\ value = None
  /\ keys = None
  /\ result = None /\ threw = FALSE
  /\ fn = None
  /\ curried = None /\ curriedThrew = FALSE
  /\ again = None /\ againThrew = FALSE
  /\ plain = None /\ plainThrew = FALSE

\* Frames: what each specification leaves alone.
others == <<pendingVars, eventVars, lazyVars, changedVars, memoVars, logVars
    , debounceVars>>
OthersIdle == PendingMounted /\ EventIdle /\ LazyUnmounted
    /\ ChangedUnmounted /\ MemoUnmounted /\ LogUnloaded /\ DebounceUnused

pendingRest == <<vars, eventVars, lazyVars, changedVars, memoVars, logVars
    , debounceVars>>
PendingRestIdle == DeepOmitIdle /\ EventIdle /\ LazyUnmounted
    /\ ChangedUnmounted /\ MemoUnmounted /\ LogUnloaded /\ DebounceUnused

eventRest == <<vars, pendingVars, lazyVars, changedVars, memoVars, logVars
    , debounceVars>>
EventRestIdle == DeepOmitIdle /\ PendingMounted /\ LazyUnmounted
    /\ ChangedUnmounted /\ MemoUnmounted /\ LogUnloaded /\ DebounceUnused

lazyRest == <<vars, pendingVars, eventVars, changedVars, memoVars, logVars
    , debounceVars>>
LazyRestIdle == DeepOmitIdle /\ PendingMounted /\ EventIdle
    /\ ChangedUnmounted /\ MemoUnmounted /\ LogUnloaded /\ DebounceUnused

changedRest == <<vars, pendingVars, eventVars, lazyVars, memoVars, logVars
    , debounceVars>>
ChangedRestIdle == DeepOmitIdle /\ PendingMounted /\ EventIdle
    /\ LazyUnmounted /\ MemoUnmounted /\ LogUnloaded /\ DebounceUnused

memoRest == <<vars, pendingVars, eventVars, lazyVars, changedVars, logVars
    , debounceVars>>
MemoRestIdle == DeepOmitIdle /\ PendingMounted /\ EventIdle /\ LazyUnmounted
    /\ ChangedUnmounted /\ LogUnloaded /\ DebounceUnused

logRest == <<vars, pendingVars, eventVars, lazyVars, changedVars, memoVars
    , debounceVars>>
LogRestIdle == DeepOmitIdle /\ PendingMounted /\ EventIdle /\ LazyUnmounted
    /\ ChangedUnmounted /\ MemoUnmounted /\ DebounceUnused

debounceRest == <<vars, pendingVars, eventVars, lazyVars, changedVars
    , memoVars, logVars>>
DebounceRestIdle == DeepOmitIdle /\ PendingMounted /\ EventIdle
    /\ LazyUnmounted /\ ChangedUnmounted /\ MemoUnmounted /\ LogUnloaded

Init ==
  /\ OthersIdle
  /\ lib \in Builds
  /\ heap = <<>>
  /\ pc = "build"
  /\ value = None
  /\ keys = None
  /\ result = None /\ threw = FALSE
  /\ fn = None
  /\ curried = None /\ curriedThrew = FALSE
  /\ again = None /\ againThrew = FALSE
  /\ plain = None /\ plainThrew = FALSE

\* what the caller can put into a container it builds
Elems(h) == Leaves \cup {Ref(a) : a \in 1..Len(h)}

\* the caller writes an array literal
NewArray ==
  /\ pc = "build"
  /\ Len(heap) < MaxHeap
  /\ \E n \in 0..MaxLen : \E body \in [1..n -> Elems(heap)] :
        heap' = Alloc(heap, "arr", body).h
  /\ UNCHANGED others
  /\ UNCHANGED <<lib, pc, value, keys, calls>>

\* the caller writes an object literal
NewObject ==
  /\ pc = "build"
  /\ Len(heap) < MaxHeap
  /\ \E ks \in SUBSET ObjectKeys :
        /\ Cardinality(ks) <= MaxLen
        /\ \E f \in [ks -> Elems(heap)] :
              LET order == SelectSeq(KeyOrder, LAMBDA k : k \in ks)
                  body  == [i \in 1..Len(order) |-> [k |-> order[i], v |-> f[order[i]]]]
              IN  heap' = Alloc(heap, "obj", body).h
  /\ UNCHANGED others
  /\ UNCHANGED <<lib, pc, value, keys, calls>>

\* the key lists a caller passes: distinct keys, in one order
KeyLists ==
  {SelectSeq(KeyOrder, LAMBDA k : k \in ks) :
      ks \in {S \in SUBSET Keys : Cardinality(S) <= MaxKeys}}

\* the value under test: the last container built, or a scalar
Inputs(h) == IF h = <<>> THEN Scalars ELSE {Ref(Len(h))}

\* the caller picks the arguments
NewKeys ==
  /\ pc = "build"
  /\ \E ks \in KeyLists : \E v \in Inputs(heap) :
        LET a == Alloc(heap, "arr", [i \in 1..Len(ks) |-> Str(ks[i])])
        IN  /\ heap' = a.h
            /\ keys' = a.r
            /\ value' = v
  /\ pc' = "ready"
  /\ UNCHANGED others
  /\ UNCHANGED <<lib, calls>>

\* deepOmit(value, keys)
CallDirect ==
  /\ pc = "ready"
  /\ LET c == deepOmit(lib, heap, <<value, keys>>)
     IN  /\ heap' = c.h
         /\ result' = c.r
         /\ threw' = ~c.ok
  /\ pc' = "called"
  /\ UNCHANGED others
  /\ UNCHANGED <<lib, value, keys, fn, curried, curriedThrew, again, againThrew,
                 plain, plainThrew>>

\* fn = deepOmit(keys)
Curry ==
  /\ pc = "called"
  /\ LET c == deepOmit(lib, heap, <<keys>>)
     IN  /\ heap' = c.h
         /\ fn' = c.r
  /\ pc' = "bound"
  /\ UNCHANGED others
  /\ UNCHANGED <<lib, value, keys, result, threw, curried, curriedThrew, again,
                 againThrew, plain, plainThrew>>

\* fn(value)
Apply ==
  /\ pc = "bound"
  /\ LET c == callFn(lib, heap, fn, value)
     IN  /\ heap' = c.h
         /\ curried' = c.r
         /\ curriedThrew' = ~c.ok
  /\ pc' = "applied"
  /\ UNCHANGED others
  /\ UNCHANGED <<lib, value, keys, result, threw, fn, again, againThrew,
                 plain, plainThrew>>

\* deepOmit(result, keys), when there is a result
Again ==
  /\ pc = "applied"
  /\ ~threw
  /\ LET c == deepOmit(lib, heap, <<result, keys>>)
     IN  /\ heap' = c.h
         /\ again' = c.r
         /\ againThrew' = ~c.ok
  /\ pc' = "again"
  /\ UNCHANGED others
  /\ UNCHANGED <<lib, value, keys, result, threw, fn, curried, curriedThrew,
                 plain, plainThrew>>

\* deepOmit(value, keys) of src/deep-omit.ts
CallPlain ==
  /\ pc = "ready"
  /\ LET c == P_call(heap, <<value, keys>>)
     IN  /\ heap' = c.h
         /\ plain' = c.r
         /\ plainThrew' = ~c.ok
  /\ pc' = "plain"
  /\ UNCHANGED others
  /\ UNCHANGED <<lib, value, keys, result, threw, fn, curried, curriedThrew,
                 again, againThrew>>

Next == NewArray \/ NewObject \/ NewKeys \/ CallDirect \/ Curry \/ Apply
          \/ Again \/ CallPlain

Spec == Init /\ [][Next]_<<vars, others>>

\* ---------------------------------------------------------------- claims
\* the keys the caller listed
KeySet == {heap[keys.v].v[i].v : i \in 1..Len(heap[keys.v].v)}

RECURSIVE NoKeyIn(_, _)
RECURSIVE SameShape(_, _, _)
RECURSIVE Corresponds(_, _, _, _, _)

\* a value's tree holds no object with a key of K
NoKeyIn(tree, K) ==
  IF tree.t = "arr" THEN \A i \in 1..Len(tree.v) : NoKeyIn(tree.v[i], K)
  ELSE IF tree.t = "obj"
       THEN /\ DOMAIN tree.v \cap K = {}
            /\ \A k \in DOMAIN tree.v : NoKeyIn(tree.v[k], K)
       ELSE TRUE

\* C1: whenever deepOmit(value, keys) of src/remeda/index.ts returns, no
\* object of the result, at any depth and also inside arrays, has a key that
\* is in the key list.
C1_NoListedKeyInResult ==
  (pc = "called" /\ ~threw) => NoKeyIn(Tree(heap, result), KeySet)

\* deepOmit(s, keys) is an array as long as the array s, whose i-th element
\* is deep-equal to deepOmit(s[i], keys)
Elementwise(s, out) ==
  /\ out.ok
  /\ IsArray(out.h, out.r)
  /\ Len(out.h[out.r.v].v) = Len(heap[s.v].v)
  /\ \A i \in 1..Len(heap[s.v].v) :
        LET e == deepOmit(lib, heap, <<heap[s.v].v[i], keys>>)
        IN  /\ e.ok
            /\ i <= Len(out.h[out.r.v].v)
            /\ Tree(out.h, out.h[out.r.v].v[i]) = Tree(e.h, e.r)

\* C2: for the array handed to deepOmit and for every array nested in it,
\* deepOmit yields an array of the same length whose i-th element is
\* deepOmit of the i-th element under the same key list.
C2_ArraysElementwise ==
  (pc = "called" /\ ~threw) =>
     /\ IsArray(heap, value) =>
           Elementwise(value, [h |-> heap, r |-> result, ok |-> TRUE])
     /\ \A a \in Reach(heap, value) :
           IsArray(heap, Ref(a)) =>
              Elementwise(Ref(a), deepOmit(lib, heap, <<Ref(a), keys>>))

Kind(tree) == IF tree.t \in {"arr", "obj"} THEN tree.t ELSE "scalar"

\* tr has the kind of tv here and at every position of tv that the key
\* filter K lets through
SameShape(tv, tr, K) ==
  /\ Kind(tr) = Kind(tv)
  /\ tv.t = "arr" => \A i \in 1..Len(tv.v) :
                        i <= Len(tr.v) /\ SameShape(tv.v[i], tr.v[i], K)
  /\ tv.t = "obj" => \A k \in DOMAIN tv.v \ K :
                        k \in DOMAIN tr.v /\ SameShape(tv.v[k], tr.v[k], K)

\* C3: the result of deepOmit(value, keys) is an array where value has an
\* array, an object where value has an object and a scalar where value has a
\* scalar, at every position of value that survives the filter.
C3_SameShape ==
  (pc = "called" /\ ~threw) =>
     SameShape(Tree(heap, value), Tree(heap, result), KeySet)

Entry(h, o, k) == CHOOSE e \in SeqToSet(h[o.v].v) : e.k = k
KeysOf(h, o) == {h[o.v].v[i].k : i \in 1..Len(h[o.v].v)}

\* v holds an object with a key that is not in K
HasKeptKey(h, v, K) ==
  \E a \in Reach(h, v) : h[a].t = "obj" /\ KeysOf(h, Ref(a)) \ K # {}

\* r answers v position by position: where v has an object, r has an object
\* with no key of its own, and with each key of v that is not in K mapped to
\* deepOmit of v's value
Corresponds(h, v, r, ks, K) ==
  IF IsObject(h, v)
  THEN /\ IsObject(h, r)
       /\ KeysOf(h, r) \subseteq KeysOf(h, v)
       /\ \A k \in KeysOf(h, v) \ K :
             /\ k \in KeysOf(h, r)
             /\ LET e == deepOmit(lib, h, <<Entry(h, v, k).v, ks>>)
                IN  e.ok /\ Tree(h, Entry(h, r, k).v) = Tree(e.h, e.r)
             /\ Corresponds(h, Entry(h, v, k).v, Entry(h, r, k).v, ks, K)
  ELSE IF IsArray(h, v)
  THEN \A i \in 1..Len(h[v.v].v) :
          HasKeptKey(h, h[v.v].v[i], K) =>
             /\ IsArray(h, r)
             /\ i <= Len(h[r.v].v)
             /\ Corresponds(h, h[v.v].v[i], h[r.v].v[i], ks, K)
  ELSE TRUE

\* C4: for every object m at any depth of value and every key k of m that is
\* not in the key list, the object at the same position of the result has key
\* k with value deepOmit(m[k], keys), and has no key that m has not.
C4_OtherKeysPreserved ==
  (pc = "called" /\ ~threw) => Corresponds(heap, value, result, keys, KeySet)

\* C5: deepOmit(deepOmit(value, keys), keys) is deep-equal to
\* deepOmit(value, keys).
C5_Idempotent ==
  (pc = "again" /\ ~againThrew) => Tree(heap, again) = Tree(heap, result)

\* C6: with an empty key list, deepOmit(value, []) is deep-equal to value.
C6_EmptyListIdentity ==
  (pc = "called" /\ ~threw /\ KeySet = {}) =>
     Tree(heap, result) = Tree(heap, value)

\* C7: the function that deepOmit(keys) returns, applied to value, gives what
\* deepOmit(value, keys) gives: both raise, or both return and the results
\* are deep-equal.
C7_PartialEqualsDirect ==
  pc \in {"applied", "again"} =>
     /\ fn.t = "fn"
     /\ curriedThrew = threw
     /\ ~threw => Tree(heap, curried) = Tree(heap, result)

\* both forms were called on an object that loses a key and keeps another
C7_Witness ==
  /\ pc = "applied" /\ ~threw /\ ~curriedThrew
  /\ IsObject(heap, value)
  /\ KeysOf(heap, value) \cap KeySet # {}
  /\ KeysOf(heap, value) \ KeySet # {}
  /\ IsObject(heap, curried)
  /\ KeysOf(heap, curried) = KeysOf(heap, value) \ KeySet

\* C8: no call of deepOmit (either file, direct or partially applied)
\* changes a container that existed before the call: the value, everything
\* reachable from it and the key list keep their keys, elements and values.
C8_ArgumentsNotMutated ==
  [][pc # "build" => \A a \in 1..Len(heap) : heap'[a] = heap[a]]_vars

\* deepOmit returned an object without a listed key that value still has
C8_Witness ==
  /\ pc = "called" /\ ~threw
  /\ IsObject(heap, value)
  /\ KeysOf(heap, value) \cap KeySet # {}
  /\ IsObject(heap, result)
  /\ KeysOf(heap, result) \cap KeySet = {}
  /\ Len(heap[keys.v].v) > 0

\* the containers a call's return value reaches were all allocated by the call
Fresh(h, hNew, r) == Reach(hNew, r) \subseteq (Len(h) + 1)..Len(hNew)

\* C9: nothing reachable from the value of a call of deepOmit existed before
\* the call: no container of the input, and not the key list.
C9_ResultIsFresh ==
  [][/\ pc' = "called"  => Fresh(heap, heap', result')
     /\ pc' = "applied" => Fresh(heap, heap', curried')
     /\ pc' = "again"   => Fresh(heap, heap', again')
     /\ pc' = "plain"   => Fresh(heap, heap', plain')]_vars

\* deepOmit returned containers for a value that holds a container
C9_Witness ==
  /\ pc = "called" /\ ~threw
  /\ Cardinality(Reach(heap, value)) >= 2
  /\ Cardinality(Reach(heap, result)) >= 2
  /\ Reach(heap, result) \cap (Reach(heap, value) \cup {keys.v}) = {}

\* C10: deepOmit of a string, number, boolean, null or undefined returns that
\* value, whatever the key list.
C10_ScalarsUnchanged ==
  (pc = "called" /\ value.t # "ref") => (~threw /\ result = value)

\* deepOmit(null, [id]) returned null
C10_Witness ==
  /\ pc = "called" /\ ~threw
  /\ value = Null
  /\ KeySet = {KeyId}
  /\ result = Null

\* C11: deepOmit(value, keys) of src/remeda/index.ts returns a value and
\* raises no error, whatever the shape of value and whatever the key list.
C11_NeverRaises ==
  pc \in {"called", "bound", "applied", "again"} => ~threw

\* C12: deepOmit of src/deep-omit.ts, given an object and a path of exactly
\* one key, returns an object that has no property of that name.
C12_PlainOmitsTheKey ==
  (pc = "plain" /\ ~plainThrew /\ IsObject(heap, value)
     /\ Len(heap[keys.v].v) = 1) =>
        /\ IsObject(heap, plain)
        /\ KeysOf(heap, plain) \cap KeySet = {}

\* ------------- usePendingEvent (src/react/index.ts), useAsyncCallback
MaxCalls == 2     \* invocations of the memoized handler

Err == [t |-> "error", v |-> 0]            \* an instance of Error
Callbacks == {"cb1", "cb2"}                \* the handlers a component wraps
ThrownValues == {Err, Str(<<"x">>)}        \* what a handler throws or rejects with

\* e instanceof Error
InstanceOfError(e) == e.t = "error"

InFlight == {i \in 1..Len(pe_calls) : pe_calls[i].status = "flight"}

\* (callback) => { ref.current = callback; return memoized }
Wrap ==
  \E cb \in Callbacks :
  /\ pe_ref' = cb
  /\ pe_wrapped' = pe_wrapped \cup {cb}
  /\ UNCHANGED <<pe_pending, pe_success, pe_error, pe_calls>>
  /\ UNCHANGED pendingRest

\* the function that the wrapper returned for callback `for` is invoked, and
\* the callback returns (a promise or a value): memoized runs up to its await
InvokeAwait ==
  \E for \in Callbacks :
  /\ for \in pe_wrapped
  /\ Len(pe_calls) < MaxCalls
  /\ pe_error' = Null
  /\ pe_success' = FALSE
  /\ pe_pending' = TRUE
  /\ pe_calls' = Append(pe_calls, [for |-> for, ran |-> pe_ref, alone |-> InFlight = {},
                                   status |-> "flight", thrown |-> None])
  /\ UNCHANGED <<pe_ref, pe_wrapped>>
  /\ UNCHANGED pendingRest

\* the same, and the callback throws e synchronously: catch and finally run
\* before memoized returns
InvokeThrow ==
  \E for \in Callbacks : \E e \in ThrownValues :
  /\ for \in pe_wrapped
  /\ Len(pe_calls) < MaxCalls
  /\ pe_success' = FALSE
  /\ pe_error' = IF InstanceOfError(e) THEN e ELSE Null
  /\ pe_pending' = FALSE
  /\ pe_calls' = Append(pe_calls, [for |-> for, ran |-> pe_ref, alone |-> InFlight = {},
                                   status |-> "settled", thrown |-> e])
  /\ UNCHANGED <<pe_ref, pe_wrapped>>
  /\ UNCHANGED pendingRest

\* the awaited promise of invocation i fulfils
Fulfil ==
  \E i \in 1..MaxCalls :
  /\ i \in InFlight
  /\ pe_success' = TRUE
  /\ pe_pending' = FALSE
  /\ pe_calls' = [pe_calls EXCEPT ![i].status = "settled"]
  /\ UNCHANGED <<pe_error, pe_ref, pe_wrapped>>
  /\ UNCHANGED pendingRest

\* the awaited promise of invocation i rejects with e
Reject ==
  \E i \in 1..MaxCalls : \E e \in ThrownValues :
  /\ i \in InFlight
  /\ pe_error' = IF InstanceOfError(e) THEN e ELSE pe_error
  /\ pe_pending' = FALSE
  /\ pe_calls' = [pe_calls EXCEPT ![i].status = "settled", ![i].thrown = e]
  /\ UNCHANGED <<pe_success, pe_ref, pe_wrapped>>
  /\ UNCHANGED pendingRest

PendingInit == PendingMounted /\ PendingRestIdle

PendingNext == Wrap \/ InvokeAwait \/ InvokeThrow \/ Fulfil \/ Reject

PendingSpec == PendingInit /\ [][PendingNext]_<<pendingVars, pendingRest>>

\* C13: the pending state is true exactly when an invocation of the wrapped
\* handler has started and has not settled yet, overlapping invocations
\* included.
C13_PendingIffInFlight == pe_pending <=> InFlight # {}

\* C14: once an invocation that overlapped no other has settled, the error
\* state is non-null exactly if the callback threw or rejected, whatever it
\* threw.
C14_ErrorIffThrew ==
  (pe_calls # <<>> /\ InFlight = {} /\ pe_calls[Len(pe_calls)].alone) =>
     (pe_error # Null <=> pe_calls[Len(pe_calls)].thrown # None)

\* C15: the function the wrapper returned for a callback runs that callback,
\* also after the wrapper was applied to another callback.
C15_RunsItsOwnCallback ==
  \A i \in 1..Len(pe_calls) : pe_calls[i].ran = pe_calls[i].for

\* ------------- useEvent (src/react/index.ts)
MaxRenders == 3   \* renders of one component instance

Args == {1, 2}            \* what the returned function is invoked with

\* calling callback cb with argument a: its return value tells both
CallCallback(cb, a) == <<cb, a>>

\* stable: (...args) => ref.current.callback(...args)
stable(ref, a) == CallCallback(ref.callback, a)

\* useIsomorphicLayoutEffect: useLayoutEffect when a document exists,
\* otherwise useEffect
IsLayoutEffect(hasDocument) == hasDocument

\* the effect body: ref.current.callback = callback
StoreCallback(ref, cb) == [ref EXCEPT !.callback = cb]

\* the component renders with callback cb: useRef keeps its object after the
\* first render, whose initial value holds a new function and cb; the render
\* returns ref.current.stable. A render replaces an update that has not
\* committed; the first render commits before the next one starts.
EventRender ==
  \E cb \in Callbacks :
  /\ ev_renders < MaxRenders
  /\ ev_committed # NoCallback \/ ev_wip = NoCallback
  /\ ev_renders' = ev_renders + 1
  /\ ev_ref' = IF ev_ref = NoRef
                 THEN [stable |-> ev_renders + 1, callback |-> cb]
                 ELSE ev_ref
  /\ ev_returned' = ev_returned \cup {ev_ref'.stable}
  /\ ev_wip' = cb
  /\ UNCHANGED <<ev_hasDocument, ev_committed, ev_passive, ev_calls>>
  /\ UNCHANGED eventRest

\* React commits the render: passive effects still scheduled by the previous
\* commit run first; a layout effect runs in the commit, a passive effect is
\* scheduled for later
EventCommit ==
  /\ ev_wip # NoCallback
  /\ ev_committed' = ev_wip
  /\ ev_wip' = NoCallback
  /\ IF IsLayoutEffect(ev_hasDocument)
       THEN /\ ev_ref' = StoreCallback(ev_ref, ev_wip)
            /\ ev_passive' = NoCallback
       ELSE /\ ev_ref' = IF ev_passive = NoCallback THEN ev_ref
                         ELSE StoreCallback(ev_ref, ev_passive)
            /\ ev_passive' = ev_wip
  /\ UNCHANGED <<ev_hasDocument, ev_returned, ev_renders, ev_calls>>
  /\ UNCHANGED eventRest

\* React runs the scheduled passive effect
EventFlushPassive ==
  /\ ev_passive # NoCallback
  /\ ev_ref' = StoreCallback(ev_ref, ev_passive)
  /\ ev_passive' = NoCallback
  /\ UNCHANGED <<ev_hasDocument, ev_returned, ev_wip, ev_committed, ev_renders,
                 ev_calls>>
  /\ UNCHANGED eventRest

\* somebody (a timer, a promise, another component's effect) invokes the
\* returned function
EventInvoke ==
  \E a \in Args :
  /\ ev_ref # NoRef
  /\ Len(ev_calls) < MaxCalls
  /\ ev_calls' = Append(ev_calls, [arg |-> a, committed |-> ev_committed,
                                   returned |-> stable(ev_ref, a)])
  /\ UNCHANGED <<ev_hasDocument, ev_ref, ev_returned, ev_wip, ev_committed,
                 ev_passive, ev_renders>>
  /\ UNCHANGED eventRest

EventInit == ev_hasDocument \in BOOLEAN /\ EventUnmounted /\ EventRestIdle

EventNext == EventRender \/ EventCommit \/ EventFlushPassive \/ EventInvoke

EventSpec == EventInit /\ [][EventNext]_<<eventVars, eventRest>>

LazyValues ==
  {Num(0), Num(42), Bool(FALSE), Bool(TRUE), Str(<<>>), Str(<<"x">>), Null,
   Undefined}

\* JavaScript ToBoolean on the values above
Truthy(x) ==
  CASE x.t = "num" -> x.v # 0
    [] x.t = "bool" -> x.v
    [] x.t = "str" -> x.v # <<>>
    [] x = Null \/ x = Undefined \/ x.t = "nan" -> FALSE
    [] OTHER -> TRUE

\* one render: if (!ref.current) ref.current = fn()
LazyRender ==
  \E v \in LazyValues :
  /\ lz_renders < MaxRenders
  /\ lz_renders' = lz_renders + 1
  /\ IF ~Truthy(lz_current)
       THEN /\ lz_current' = v
            /\ lz_calls' = Append(lz_calls, v)
       ELSE UNCHANGED <<lz_current, lz_calls>>
  /\ UNCHANGED lazyRest

LazyInit == LazyUnmounted /\ LazyRestIdle

LazyNext == LazyRender

LazySpec == LazyInit /\ [][LazyNext]_<<lazyVars, lazyRest>>

\* C17: across the renders of a component instance fn is called exactly
\* once, on the first render, whatever it returns, and the ref keeps that
\* value.
C17_InitialisedOnce ==
  lz_renders >= 1 => Len(lz_calls) = 1 /\ lz_current = lz_calls[1]

\* ------------- usePrevious, useHasChanged (react/index.ts)

\* usePrevious with the state pair st: the pair after the render and the
\* value returned. A set() during render makes React run the component again
\* at once with the new pair, where value === current.
usePrevious(st, v) ==
  LET first == IF st = NoState THEN <<v, Null>> ELSE st
      after == IF v # first[1] THEN <<v, first[1]>> ELSE first
  IN [state |-> after, previus |-> after[2]]

\* useHasChanged: prev !== null && prev !== value
useHasChanged(st, v) ==
  LET r == usePrevious(st, v)
  IN [state |-> r.state, out |-> (r.previus # Null /\ r.previus # v)]

ChangedRender ==
  \E v \in Scalars :
  /\ Len(hc_values) < MaxRenders
  /\ hc_values' = Append(hc_values, v)
  /\ hc_state' = useHasChanged(hc_state, v).state
  /\ hc_out' = Append(hc_out, useHasChanged(hc_state, v).out)
  /\ UNCHANGED changedRest

ChangedInit == ChangedUnmounted /\ ChangedRestIdle

ChangedNext == ChangedRender

ChangedSpec == ChangedInit /\ [][ChangedNext]_<<changedVars, changedRest>>

\* C18: useHasChanged returns true on a render exactly when the value of
\* that render differs from the value of the render just before it.
C18_ChangedSinceLastRender ==
  \A i \in 1..Len(hc_out) :
    hc_out[i] <=> (i > 1 /\ hc_values[i] # hc_values[i - 1])

\* ------------- useDeepMemo (src/react/index.ts), with dequal/lite

\* Keys are plain data. A key is [id |-> identity of the object the render
\* passed, tree |-> its content]; a render that builds its key anew passes
\* an object nobody has seen before.
NaN == [t |-> "nan", v |-> 0]
Arr(xs) == [t |-> "arr", v |-> xs]        \* xs: a sequence of trees
Obj(f) == [t |-> "obj", v |-> f]          \* f: property name -> tree

EmptyObj == Obj([k \in {} |-> Null])
ObjA(x) == Obj([k \in {"a"} |-> x])
ObjAB(x, y) == Obj([k \in {"a", "b"} |-> IF k = "a" THEN x ELSE y])

KeyTrees ==
  {Num(1), Num(0), NaN, Null, Undefined, Str(<<"x">>),
   Arr(<<>>), Arr(<<Num(1)>>), Arr(<<Num(1), Num(0)>>), Arr(<<Arr(<<>>)>>),
   EmptyObj, ObjA(Num(1)), ObjA(Undefined), ObjAB(Num(1), Num(0)),
   ObjA(Arr(<<Num(1)>>)), Arr(<<ObjA(Num(1))>>)}

IsPrimitive(x) == x.t \notin {"arr", "obj"}

\* foo.constructor
Ctor(x) ==
  CASE x.t = "arr" -> "Array"
    [] x.t = "obj" -> "Object"
    [] x.t = "num" \/ x.t = "nan" -> "Number"
    [] x.t = "str" -> "String"
    [] x.t = "bool" -> "Boolean"
    [] OTHER -> "none"

\* foo === bar; same tells whether the two are one and the same object
StrictEquals(foo, bar, same) ==
  IF IsPrimitive(foo) /\ IsPrimitive(bar)
    THEN foo.t = bar.t /\ foo.t # "nan" /\ foo.v = bar.v
    ELSE same

RECURSIVE dequal(_, _, _)

\* dequal compares identities only
dequal_identity(foo, bar, same) == StrictEquals(foo, bar, same)

\* dequal of dequal/lite on plain data
dequal(foo, bar, same) ==
  IF StrictEquals(foo, bar, same) THEN TRUE
  ELSE IF Truthy(foo) /\ Truthy(bar) /\ Ctor(foo) = Ctor(bar)
            /\ Ctor(foo) \in {"Array", "Object"}
    THEN IF Ctor(foo) = "Array"
           THEN /\ Len(foo.v) = Len(bar.v)
                /\ \A i \in 1..Len(foo.v) : dequal(foo.v[i], bar.v[i], FALSE)
           ELSE /\ \A k \in DOMAIN foo.v :
                      /\ k \in DOMAIN bar.v
                      /\ dequal(foo.v[k], bar.v[k], FALSE)
                /\ Cardinality(DOMAIN bar.v) = Cardinality(DOMAIN foo.v)
    ELSE foo.t = "nan" /\ bar.t = "nan"

\* equals(key, ref.current.key)
equals(key, stored) == dequal(key.tree, stored.tree, key.id = stored.id)

\* the keys a render may pass: a newly built one, or the object of the render
\* before
RenderKeys ==
  {[id |-> Len(dm_keys) + 1, tree |-> t] : t \in KeyTrees}
    \cup (IF dm_keys = <<>> THEN {} ELSE {dm_keys[Len(dm_keys)]})

\* one render of useDeepMemo(memoFn, key)
MemoRender ==
  \E key \in RenderKeys :
  /\ Len(dm_keys) < MaxRenders
  /\ dm_keys' = Append(dm_keys, key)
  /\ IF dm_ref = NoMemo \/ ~equals(key, dm_ref.key)
       THEN /\ dm_memoCalls' = dm_memoCalls + 1
            /\ dm_ref' = [key |-> key, value |-> dm_memoCalls + 1]
            /\ dm_called' = Append(dm_called, TRUE)
       ELSE /\ UNCHANGED <<dm_memoCalls, dm_ref>>
            /\ dm_called' = Append(dm_called, FALSE)
  /\ dm_out' = Append(dm_out, dm_ref'.value)
  /\ UNCHANGED memoRest

MemoInit == MemoUnmounted /\ MemoRestIdle

MemoNext == MemoRender

MemoSpec == MemoInit /\ [][MemoNext]_<<memoVars, memoRest>>

\* the render, before render i, that called memoFn last
LastMemoCall(i) ==
  CHOOSE j \in 1..(i - 1) :
    dm_called[j] /\ \A k \in (j + 1)..(i - 1) : ~dm_called[k]

\* two keys have the same content
DeepEqual(k1, k2) == k1.tree = k2.tree

MaxLoggers == 1   \* proxies made by createLogger

logMethods == <<"trace", "debug", "info", "log", "warn", "error">>
LogMethod == {logMethods[i] : i \in 1..Len(logMethods)}

\* what localStorage may hold when the module loads
StoredLevels == {NoStorage, Nullish, "warn", "verbose"}
\* the properties read from a proxy: the six methods and another console one
Props == LogMethod \cup {"table"}

\* Array.prototype.indexOf: the 0-based position, -1 when absent
IndexOf(seq, x) ==
  IF \E i \in 1..Len(seq) : seq[i] = x
    THEN (CHOOSE i \in 1..Len(seq) : seq[i] = x /\ \A j \in 1..(i - 1) : seq[j] # x) - 1
    ELSE 0 - 1

\* a ?? b
Coalesce(a, b) == IF a = Nullish THEN b ELSE a

noop == [kind |-> "noop", name |-> "", bound |-> FALSE, proxied |-> FALSE]

\* getDefaultLevel()
getDefaultLevel(storage, default) ==
  IF storage = NoStorage THEN default ELSE Coalesce(storage, default)

\* createHandler(level, applyBind, applyCallback): the closure of the handler
createHandler(level, applyBind, applyCallback, storage, default) ==
  [level |-> Coalesce(level, getDefaultLevel(storage, default)),
   bind |-> applyBind, callback |-> applyCallback]

\* the get trap, reading only the methods above the level
get_strict(handler, prop) ==
  IF IndexOf(logMethods, prop) > IndexOf(logMethods, handler.level)
    THEN [kind |-> "console", name |-> prop, bound |-> handler.bind,
          proxied |-> handler.callback]
    ELSE noop

\* the get trap of the handler
get(handler, prop) ==
  IF IndexOf(logMethods, prop) >= IndexOf(logMethods, handler.level)
    THEN [kind |-> "console", name |-> prop, bound |-> handler.bind,
          proxied |-> handler.callback]
    ELSE noop

\* the module is evaluated: defaultLevel is read from localStorage, the
\* exported log proxy is created
LogLoad ==
  /\ ~log_loaded
  /\ log_loaded' = TRUE
  /\ log_defaultLevel' = IF log_storage = NoStorage THEN "trace" ELSE log_storage
  /\ log_loggers' = <<createHandler(Nullish, FALSE, FALSE, log_storage,
                                    log_defaultLevel')>>
  /\ UNCHANGED <<log_storage, log_read>>
  /\ UNCHANGED logRest

\* setDefaultLevel(level)
LogSetDefaultLevel ==
  \E level \in LogMethod :
  /\ log_loaded
  /\ log_defaultLevel' = level
  /\ log_storage' = IF log_storage = NoStorage THEN NoStorage ELSE level
  /\ UNCHANGED <<log_loaded, log_loggers, log_read>>
  /\ UNCHANGED logRest

\* createLogger(name): options default to {level: defaultLevel, showLevel: true}
LogCreateDefault ==
  /\ log_loaded
  /\ Len(log_loggers) < 1 + MaxLoggers
  /\ log_loggers' = Append(log_loggers,
        createHandler(log_defaultLevel, TRUE, FALSE, log_storage, log_defaultLevel))
  /\ UNCHANGED <<log_storage, log_loaded, log_defaultLevel, log_read>>
  /\ UNCHANGED logRest

\* createLogger(name, options), options with or without level and applyCallback
LogCreateLogger ==
  \E level \in LogMethod \cup {Nullish} : \E applyCallback \in BOOLEAN :
  /\ log_loaded
  /\ Len(log_loggers) < 1 + MaxLoggers
  /\ log_loggers' = Append(log_loggers,
        createHandler(level, TRUE, applyCallback, log_storage, log_defaultLevel))
  /\ UNCHANGED <<log_storage, log_loaded, log_defaultLevel, log_read>>
  /\ UNCHANGED logRest

\* a property of one of the proxies is read
LogGet ==
  \E i \in 1..Len(log_loggers) : \E prop \in Props :
  /\ log_read' = [logger |-> i, prop |-> prop, result |-> get(log_loggers[i], prop)]
  /\ UNCHANGED <<log_storage, log_loaded, log_defaultLevel, log_loggers>>
  /\ UNCHANGED logRest

LogInit ==
  /\ log_storage \in StoredLevels
  /\ log_loaded = FALSE
  /\ log_defaultLevel = "trace"
  /\ log_loggers = <<>>
  /\ log_read = NoRead
  /\ LogRestIdle

LogNext ==
  LogLoad \/ LogSetDefaultLevel \/ LogCreateDefault \/ LogCreateLogger \/ LogGet

LogSpec == LogInit /\ [][LogNext]_<<logVars, logRest>>

\* the severity order trace < debug < info < log < warn < error
Severity ==
  [m \in LogMethod |->
     CASE m = "trace" -> 1 [] m = "debug" -> 2 [] m = "info" -> 3
       [] m = "log" -> 4 [] m = "warn" -> 5 [] m = "error" -> 6]

Enabled20(handler, m) == get(handler, m).kind = "console" /\ get(handler, m).name = m

\* C20: a proxy whose level L is one of the six filters by severity: reading
\* method m gives the console method when m is at least as severe as L and
\* the no-op when it is less severe; so the enabled methods are closed under
\* "more severe", and level trace enables all six.
C20_SeverityThreshold ==
  /\ (/\ log_read # NoRead
      /\ log_read.prop \in LogMethod
      /\ log_loggers[log_read.logger].level \in LogMethod) =>
        IF Severity[log_read.prop] >= Severity[log_loggers[log_read.logger].level]
          THEN log_read.result.kind = "console" /\ log_read.result.name = log_read.prop
          ELSE log_read.result = noop
  /\ \A i \in 1..Len(log_loggers) :
       log_loggers[i].level \in LogMethod =>
         /\ \A m1, m2 \in LogMethod :
              (Enabled20(log_loggers[i], m1) /\ Severity[m2] > Severity[m1])
                 => Enabled20(log_loggers[i], m2)
         /\ log_loggers[i].level = "trace" =>
              \A m \in LogMethod : Enabled20(log_loggers[i], m)

\* the method at the very level of a proxy has been read, and one below it
\* would be the no-op
C20_Witness ==
  /\ log_read # NoRead
  /\ log_read.prop = log_loggers[log_read.logger].level
  /\ log_read.prop = "warn"
  /\ log_read.result.kind = "console"
  /\ get(log_loggers[log_read.logger], "log") = noop

\* ------------- debounce (src/index.ts)
MaxTime == 4       \* ticks of the clock

Timeouts == {1, 2}   \* the timeout debounce is given

\* clearTimeout leaves the timer in place
clearTimeout_kept(timers, id) == timers

\* clearTimeout(id): the timer of that id, if still there, is dropped; an
\* undefined or stale id does nothing
clearTimeout(timers, id) == {t \in timers : t.id # id}

\* window.setTimeout(() => func(...args), timeout): a timer that may run
\* once the clock has reached due
setTimeout(timers, id, due, args) ==
  timers \cup {[id |-> id, due |-> due, args |-> args]}

\* the debounced function is called with args
DebounceCall ==
  \E args \in Args :
  /\ Len(db_calls) < MaxCalls
  /\ db_calls' = Append(db_calls, [at |-> db_now, args |-> args])
  /\ db_timers' = setTimeout(clearTimeout(db_timers, db_timeoutId), db_nextId,
                             db_now + db_timeout, args)
  /\ db_timeoutId' = db_nextId
  /\ db_nextId' = db_nextId + 1
  /\ UNCHANGED <<db_timeout, db_now, db_funcs>>
  /\ UNCHANGED debounceRest

\* the event loop runs a timer that is due: () => func(...args). A timer
\* runs at its due time or later, whenever the thread is free.
DebounceTimer ==
  \E t \in db_timers :
  /\ t.due <= db_now
  /\ db_funcs' = Append(db_funcs, [at |-> db_now, args |-> t.args,
                                   after |-> Len(db_calls)])
  /\ db_timers' = db_timers \ {t}
  /\ UNCHANGED <<db_timeout, db_now, db_timeoutId, db_nextId, db_calls>>
  /\ UNCHANGED debounceRest

\* time passes
DebounceTick ==
  /\ db_now < MaxTime
  /\ db_now' = db_now + 1
  /\ UNCHANGED <<db_timeout, db_timeoutId, db_nextId, db_timers, db_calls,
                 db_funcs>>
  /\ UNCHANGED debounceRest

DebounceInit ==
  /\ db_timeout \in Timeouts
  /\ db_now = 0
  /\ db_timeoutId = 0
  /\ db_nextId = 1
  /\ db_timers = {}
  /\ db_calls = <<>>
  /\ db_funcs = <<>>
  /\ DebounceRestIdle

DebounceNext == DebounceCall \/ DebounceTimer \/ DebounceTick

DebounceSpec == DebounceInit /\ [][DebounceNext]_<<debounceVars, debounceRest>>

\* call i is the last of its burst: no call follows it by less than timeout
LastOfBurst(i) ==
  i = Len(db_calls) \/ db_calls[i + 1].at - db_calls[i].at >= db_timeout

\* the invocations of func made after call i and before call i + 1
FuncsAfter(i) == {k \in 1..Len(db_funcs) : db_funcs[k].after = i}

\* an invocation carries the arguments of the latest call and comes no
\* earlier than timeout after it
LateAndLatest(k) ==
  /\ db_funcs[k].after >= 1
  /\ db_funcs[k].args = db_calls[db_funcs[k].after].args
  /\ db_funcs[k].at >= db_calls[db_funcs[k].after].at + db_timeout

\* C21 as stated: every burst of calls is answered by exactly one invocation
\* of func, with the arguments of the burst's last call, no earlier than
\* timeout after it, and never while the timer of a later call is pending.
C21_OncePerBurst ==
  /\ \A k \in 1..Len(db_funcs) : LateAndLatest(k)
  /\ \A i \in 1..Len(db_calls) :
       /\ ~LastOfBurst(i) => FuncsAfter(i) = {}
       /\ (LastOfBurst(i) /\ i < Len(db_calls)) => Cardinality(FuncsAfter(i)) = 1
       /\ i = Len(db_calls) => Cardinality(FuncsAfter(i)) <= 1

\* C21, amended: every burst is answered by at most one invocation of func,
\* with the arguments of the burst's last call and no earlier than timeout
\* after it; at most one timer is pending, that of the latest call, and func
\* has not run for that call while it is pending, and has run once for it
\* when no timer is pending. A burst whose timer has not run when the next
\* call arrives gets no invocation.
C21_AtMostOncePerBurst ==
  /\ \A k \in 1..Len(db_funcs) : LateAndLatest(k) /\ LastOfBurst(db_funcs[k].after)
  /\ \A i \in 1..Len(db_calls) : Cardinality(FuncsAfter(i)) <= 1
  /\ Cardinality(db_timers) <= 1
  /\ \A t \in db_timers :
       /\ t.id = db_timeoutId
       /\ t.args = db_calls[Len(db_calls)].args
       /\ t.due = db_calls[Len(db_calls)].at + db_timeout
       /\ FuncsAfter(Len(db_calls)) = {}
  /\ (db_calls # <<>> /\ db_timers = {}) =>
       Cardinality(FuncsAfter(Len(db_calls))) = 1

\* a burst of two calls less than timeout apart has been answered by func
C21_Witness ==
  /\ Len(db_calls) >= 2
  /\ db_calls[2].at - db_calls[1].at < db_timeout
  /\ db_calls[1].args # db_calls[2].args
  /\ FuncsAfter(1) = {}
  /\ Cardinality(FuncsAfter(2)) = 1
  /\ db_timers = {}

====
